---- MODULE Spec2Model ----
(***************************************************************************)
(* CppTime: a user-space timer service.  One worker thread (run) pops the  *)
(* expiration queue and invokes handlers with the mutex released; add(),   *)
(* remove() and stop() are client calls, each one critical section.        *)
(*                                                                         *)
(* The repository holds two translation units that define the same         *)
(* functions: src/cpptime.cpp and src/unnamed/part_000.  A build links one *)
(* of them; the variable `build` says which, and is fixed by Init.         *)
(***************************************************************************)
EXTENDS Integers, Sequences, FiniteSets, Bags, TLC

\* ------------------------------------------------------------------ bounds
MaxTime == 1        \* the steady clock runs over 0..MaxTime
MaxAdds == 3        \* number of add() calls in a behaviour
MaxWhen == 1        \* add() is given an instant in 0..MaxWhen
MaxPeriod == 1      \* add() is given a period in 0..MaxPeriod
MaxExpected == 0    \* start() is given a capacity hint in 0..MaxExpected
MaxRemoveId == 1    \* remove() is given an id in 0..MaxRemoveId

\* calls[h] counts the invocations of handler h up to MaxCalls.  A timer has at
\* most MaxTime + 1 instants in 0..MaxTime, so a count of MaxTime + 2 already
\* says that handler h was invoked more often than it has instants.
MaxCalls == MaxTime + 2

Builds == {"cpptime.cpp", "part_000"}

VARIABLES
    build,        \* the translation unit linked into the program
    now,          \* CppTime::clock::now()
    done,         \* bool done
    cur_id,       \* uint64_t cur_id (cpptime.cpp only)
    events,       \* std::vector<Event> events; slot i is events[i + 1]
    capacity,     \* events.capacity()
    time_events,  \* std::priority_queue<Time_event> time_events, as a bag
    free_ids,     \* std::stack<timer_id> free_ids; its top is the last element
    pc,           \* the worker's position in run()
    te,           \* run()'s local `te`
    ev,           \* run()'s reference `Event &ev`
    notified,     \* cond has been notified since the worker started waiting
    stop_pc,      \* the position of the thread calling stop()
    nadds,        \* history: number of add() calls so far; call h registers handler h
    reg,          \* history: reg[h] = what add() call h was given and returned
    calls,        \* history: calls[h] = number of invocations of handler h begun
    removed,      \* history: removed[h] = whether and when registration h was removed
    running,      \* history: the handler being invoked (0: none)
    issued,       \* history: the ids add() has returned
    ret           \* history: the client call made by the last step and its result

vars == <<build, now, done, cur_id, events, capacity, time_events, free_ids, pc, te,
          ev, notified, stop_pc, nadds, reg, calls, removed, running, issued, ret>>

worker_vars == <<pc, te, ev>>
hist_vars == <<nadds, reg, calls, removed, running, issued>>

\* ------------------------------------------------------------------ data
\* Event::Event(): the default-constructed record (handler 0 is nullptr).
Event_default == [id |-> 0, start |-> 0, period |-> 0, handler |-> 0, valid |-> FALSE]

\* Event::Event(id, start, period, handler): valid(true).
Event_new(id, start, period, handler) ==
    [id |-> id, start |-> start, period |-> period, handler |-> handler, valid |-> TRUE]

\* struct Time_event { timestamp next; timer_id ref; }
Time_event(next, ref) == [next |-> next, ref |-> ref]

NoTe == Time_event(0, 0)
NoEv == [bound |-> FALSE, dangling |-> FALSE, snap |-> 0]
NoRet == [op |-> "none", id |-> 0, result |-> FALSE, oob |-> FALSE,
          known |-> FALSE, retired |-> FALSE]

\* events[id]
At(id) == events[id + 1]

Max(a, b) == IF a < b THEN b ELSE a

\* operator<(Time_event, Time_event) of cpptime.cpp
Less_cpptime(l, r) == l.next < r.next

\* operator<(Time_event, Time_event) of part_000
Less_part000(l, r) == r.next < l.next

Less(l, r) == IF build = "cpptime.cpp" THEN Less_cpptime(l, r) ELSE Less_part000(l, r)

\* time_events.top(): std::priority_queue yields an element that is not less
\* than any other; which one among equivalent elements is unspecified.
Top(q) == {e \in BagToSet(q) : \A f \in BagToSet(q) : ~Less(e, f)}

\* time_events.push(e) / time_events.pop() of the element top() returned
Push(q, e) == q (+) SetToBag({e})
Pop(q, e) == q (-) SetToBag({e})

\* The capacity a std::vector of `size` elements takes when it must grow by
\* `n` more than it has room for (size + max(size, n), the usual doubling).
Grow(size, n) == size + Max(size, n)

RECURSIVE Defaults(_)
\* n default-constructed events (events.resize)
Defaults(n) == IF n <= 0 THEN <<>> ELSE <<Event_default>> \o Defaults(n - 1)

\* The worker holds a reference into the store (between binding `ev` and the
\* last use of it after the handler returned).
EvBound == pc \in {"call", "handler"}

\* What `ev` becomes when the store's buffer is reallocated or its elements are
\* destroyed while the reference is held: it dangles, and the memory it points
\* to last held the handler of `events[te.ref]`.
Invalidate ==
    IF EvBound /\ ~ev.dangling
    THEN [bound |-> TRUE, dangling |-> TRUE,
          snap |-> IF te.ref < Len(events) THEN At(te.ref).handler ELSE 0]
    ELSE ev

\* A worker that keeps the mutex while the handler runs.
LockKeptInHandler == pc \in {"wait", "wait_until", "call", "exited"}

\* The mutex is free: the worker waits on cond, runs a handler, or has exited.
LockFree == pc \in {"wait", "wait_until", "call", "handler", "exited"}

\* A client thread, or the running handler, may make a call: client threads
\* call until stop() is called; the handler that runs may call at any time.
ClientMay == LockFree /\ (stop_pc = "none" \/ pc = "handler")

\* cond.notify_all(): reaches the worker if it waits
Notify == notified \/ pc \in {"wait", "wait_until"}

\* ------------------------------------------------------------------ history
\* The latest add() call that returned `id` (0: none).
LatestTok(id) ==
    LET S == {h \in 1..nadds : reg[h].id = id}
    IN IF S = {} THEN 0 ELSE CHOOSE h \in S : \A g \in S : g <= h

\* Registration h has retired: it was removed, or it is a one-shot timer
\* whose handler has been invoked and has returned.
Retired(h) ==
    \/ removed[h] # "no"
    \/ reg[h].period = 0 /\ calls[h] > 0 /\ running # h

\* ------------------------------------------------------------------ add
\* next_id() of cpptime.cpp
next_id ==
    IF free_ids = <<>>
    THEN [id |-> cur_id, cur_id |-> cur_id + 1, free_ids |-> free_ids]
    ELSE [id |-> free_ids[Len(free_ids)], cur_id |-> cur_id,
          free_ids |-> SubSeq(free_ids, 1, Len(free_ids) - 1)]

\* events.insert(events.begin() + id, e): inserts before position id and
\* moves the elements from there on one slot up.
InsertAt(s, id, e) == SubSeq(s, 1, id) \o <<e>> \o SubSeq(s, id + 1, Len(s))

\* The store part of add() of cpptime.cpp, for handler h.
add_cpptime(when, period, h) ==
    LET n == next_id
        id == n.id
        e == Event_new(id, when, period, h)
        size0 == Len(events)
        grow == size0 <= id
        resized == IF grow THEN events \o Defaults(id + 1 - size0) ELSE events
        reloc1 == grow /\ capacity < id + 1
        cap1 == IF reloc1 THEN Grow(size0, id + 1 - size0) ELSE capacity
        reloc2 == Len(resized) = cap1
        cap2 == IF reloc2 THEN Grow(Len(resized), 1) ELSE cap1
    IN [id |-> e.id, next |-> e.start, events |-> InsertAt(resized, id, e),
        capacity |-> cap2, relocated |-> reloc1 \/ reloc2,
        cur_id |-> n.cur_id, free_ids |-> n.free_ids]

\* The store part of add() of part_000, for handler h.
add_part000(when, period, h) ==
    IF free_ids = <<>>
    THEN LET id == Len(events)
             reloc == Len(events) = capacity
         IN [id |-> id, next |-> when,
             events |-> Append(events, Event_new(id, when, period, h)),
             capacity |-> IF reloc THEN Grow(Len(events), 1) ELSE capacity,
             relocated |-> reloc, cur_id |-> cur_id, free_ids |-> free_ids]
    ELSE LET id == free_ids[Len(free_ids)]
         IN [id |-> id, next |-> when,
             events |-> IF id < Len(events)
                        THEN [events EXCEPT ![id + 1] = Event_new(id, when, period, h)]
                        ELSE events,
             capacity |-> capacity, relocated |-> FALSE, cur_id |-> cur_id,
             free_ids |-> SubSeq(free_ids, 1, Len(free_ids) - 1)]

add_store(when, period, h) ==
    IF build = "cpptime.cpp" THEN add_cpptime(when, period, h)
    ELSE add_part000(when, period, h)

\* timer_id add(when, handler, period)
add(when, period) ==
    /\ ClientMay
    /\ nadds < MaxAdds
    /\ LET h == nadds + 1
           r == add_store(when, period, h)
       IN /\ events' = r.events
          /\ capacity' = r.capacity
          /\ cur_id' = r.cur_id
          /\ free_ids' = r.free_ids
          /\ ev' = IF r.relocated THEN Invalidate ELSE ev
          /\ time_events' = Push(time_events, Time_event(r.next, r.id))
          /\ notified' = Notify
          /\ nadds' = h
          /\ reg' = Append(reg, [id |-> r.id, when |-> when, period |-> period])
          /\ calls' = Append(calls, 0)
          /\ removed' = Append(removed, "no")
          /\ issued' = issued \cup {r.id}
          /\ ret' = NoRet
    /\ UNCHANGED <<build, now, done, pc, te, stop_pc, running>>

\* ------------------------------------------------------------------ remove
\* A range test that also fails for a slot that is not valid.
remove_unless_valid(id) == Len(events) <= id \/ ~At(id).valid

\* remove()'s range test: if(events.size() < id) return false;
remove_out_of_range(id) == Len(events) < id

\* How a remove(id) that went through is recorded against registration h:
\* "self" when handler h runs and the id is the one it was called with,
\* "early" when the call returns before h's instant and before any invocation.
RemovalKind(h, id) ==
    IF pc = "handler" /\ running = h /\ te.ref = id THEN "self"
    ELSE IF calls[h] = 0 /\ now < reg[h].when THEN "early"
    ELSE "late"

\* bool remove(timer_id id).  With id = events.size() the range test passes
\* and events[id].valid = false writes one element past the end of the store:
\* the call either goes on and returns true, or the process dies there.
remove(id) ==
    /\ ClientMay
    /\ LET tok == LatestTok(id)
           own == IF pc = "handler" /\ te.ref = id THEN running ELSE 0
           r == [NoRet EXCEPT !.op = "remove", !.id = id,
                              !.known = id \in issued,
                              !.retired = (tok # 0 /\ Retired(tok))]
       IN IF remove_out_of_range(id)
          THEN /\ ret' = r
               /\ UNCHANGED <<events, removed, pc>>
          ELSE IF id = Len(events)
          THEN /\ ret' = [r EXCEPT !.result = TRUE, !.oob = TRUE]
               /\ \E survives \in BOOLEAN : pc' = IF survives THEN pc ELSE "crashed"
               /\ UNCHANGED <<events, removed>>
          ELSE /\ events' = [events EXCEPT ![id + 1].valid = FALSE]
               /\ removed' = [h \in 1..nadds |->
                                IF h \in {tok, own} /\ ~Retired(h) /\ ~done
                                THEN RemovalKind(h, id) ELSE removed[h]]
               /\ ret' = [r EXCEPT !.result = TRUE]
               /\ UNCHANGED pc
    /\ UNCHANGED <<build, now, done, cur_id, capacity, time_events, free_ids, te, ev,
                   notified, stop_pc, nadds, reg, calls, running, issued>>

\* ------------------------------------------------------------------ stop
\* free_ids after stop(): part_000 empties the stack, cpptime.cpp leaves it.
stop_free_ids == IF build = "cpptime.cpp" THEN free_ids ELSE <<>>

\* void stop(), up to lock.unlock(); called from a thread other than the worker
stop ==
    /\ stop_pc = "none"
    /\ LockFree
    /\ done' = TRUE
    /\ events' = <<>>
    /\ ev' = Invalidate
    /\ time_events' = EmptyBag
    /\ free_ids' = stop_free_ids
    /\ notified' = Notify
    /\ stop_pc' = "join"
    /\ ret' = NoRet
    /\ UNCHANGED <<build, now, cur_id, capacity, pc, te>>
    /\ UNCHANGED hist_vars

\* worker.join() returns once run() has returned
join ==
    /\ stop_pc = "join"
    /\ pc = "exited"
    /\ stop_pc' = "returned"
    /\ ret' = NoRet
    /\ UNCHANGED <<build, now, done, cur_id, events, capacity, time_events, free_ids,
                   pc, te, ev, notified>>
    /\ UNCHANGED hist_vars

\* ------------------------------------------------------------------ run
store_vars == <<build, now, done, cur_id, events, capacity, time_events, free_ids>>

\* The worker is at the head of `while(!done)` with the mutex: it has just
\* gone round the loop, or it returns from cond.wait / cond.wait_until
\* (notified, timed out or spuriously) and has taken the mutex again.
AtLoop == pc \in {"loop", "wait", "wait_until"}

\* while(!done) fails: run() returns
run_exit ==
    /\ AtLoop
    /\ done
    /\ pc' = "exited"
    /\ te' = NoTe
    /\ notified' = FALSE
    /\ ret' = NoRet
    /\ UNCHANGED <<ev, stop_pc>>
    /\ UNCHANGED store_vars
    /\ UNCHANGED hist_vars

\* time_events.empty(): cond.wait(lock)
run_wait ==
    /\ AtLoop
    /\ ~done
    /\ time_events = EmptyBag
    /\ pc' = "wait"
    /\ te' = NoTe
    /\ notified' = FALSE
    /\ ret' = NoRet
    /\ UNCHANGED <<ev, stop_pc>>
    /\ UNCHANGED store_vars
    /\ UNCHANGED hist_vars

\* the top entry is not due: cond.wait_until(lock, te.next)
run_wait_until ==
    /\ AtLoop
    /\ ~done
    /\ \E t \in Top(time_events) :
         /\ ~(now >= t.next)
         /\ te' = t
    /\ pc' = "wait_until"
    /\ notified' = FALSE
    /\ ret' = NoRet
    /\ UNCHANGED <<ev, stop_pc>>
    /\ UNCHANGED store_vars
    /\ UNCHANGED hist_vars

\* the top entry is due and its event is invalid: pop it, free_ids.push(te.ref)
run_pop_invalid ==
    /\ AtLoop
    /\ ~done
    /\ \E t \in Top(time_events) :
         /\ now >= t.next
         /\ ~At(t.ref).valid
         /\ time_events' = Pop(time_events, t)
         /\ free_ids' = Append(free_ids, t.ref)
    /\ pc' = "loop"
    /\ te' = NoTe
    /\ notified' = FALSE
    /\ ret' = NoRet
    /\ UNCHANGED <<build, now, done, cur_id, events, capacity, ev, stop_pc>>
    /\ UNCHANGED hist_vars

\* the top entry is due and its event is valid: pop it, bind ev, lock.unlock()
run_pop_valid ==
    /\ AtLoop
    /\ ~done
    /\ \E t \in Top(time_events) :
         /\ now >= t.next
         /\ At(t.ref).valid
         /\ time_events' = Pop(time_events, t)
         /\ te' = t
    /\ ev' = [NoEv EXCEPT !.bound = TRUE]
    /\ pc' = "call"
    /\ notified' = FALSE
    /\ ret' = NoRet
    /\ UNCHANGED <<build, now, done, cur_id, events, capacity, free_ids, stop_pc>>
    /\ UNCHANGED hist_vars

\* The std::function ev.handler designates when it is called (0: an empty
\* function, whose call throws in the worker thread).  Through a dangling
\* reference the call finds what the memory held, or an emptied function.
ev_handler ==
    IF ev.dangling THEN {ev.snap, 0} ELSE {At(te.ref).handler}

\* ev.handler(te.ref) begins
run_invoke ==
    /\ pc = "call"
    /\ \E h \in ev_handler :
         IF h = 0
         THEN /\ pc' = "crashed"
              /\ UNCHANGED <<calls, running>>
         ELSE /\ pc' = "handler"
              /\ calls' = [calls EXCEPT ![h] = IF @ < MaxCalls THEN @ + 1 ELSE @]
              /\ running' = h
    /\ ret' = NoRet
    /\ UNCHANGED <<te, ev, notified, stop_pc, nadds, reg, removed, issued>>
    /\ UNCHANGED store_vars

\* What the worker reads through ev after the handler returned: the record in
\* slot te.ref, or anything when the reference dangles.
ev_read ==
    IF ev.dangling
    THEN [valid : BOOLEAN, period : 0..MaxPeriod]
    ELSE {[valid |-> At(te.ref).valid, period |-> At(te.ref).period]}

\* ev.valid = false: lost when the reference dangles
ev_retire ==
    IF ev.dangling THEN events ELSE [events EXCEPT ![te.ref + 1].valid = FALSE]

\* the handler returns: lock.lock(), then re-arm or retire
run_return ==
    /\ pc = "handler"
    /\ \E r \in ev_read :
         IF ~r.valid
         THEN /\ free_ids' = Append(free_ids, te.ref)
              /\ UNCHANGED <<events, time_events>>
         ELSE IF r.period > 0
         THEN /\ time_events' = Push(time_events, Time_event(te.next + r.period, te.ref))
              /\ UNCHANGED <<events, free_ids>>
         ELSE /\ events' = ev_retire
              /\ free_ids' = Append(free_ids, te.ref)
              /\ UNCHANGED time_events
    /\ pc' = "loop"
    /\ te' = NoTe
    /\ ev' = NoEv
    /\ running' = 0
    /\ ret' = NoRet
    /\ UNCHANGED <<build, now, done, cur_id, capacity, notified, stop_pc, nadds, reg,
                   calls, removed, issued>>

\* ------------------------------------------------------------------ clock
\* The steady clock advances.  Only the worker reads it, in one step with the
\* mutex held, so its advance is observed when the worker does not hold the
\* mutex and has not ended.
Tick ==
    /\ now < MaxTime
    /\ pc \in {"wait", "wait_until", "call", "handler"}
    /\ now' = now + 1
    /\ ret' = NoRet
    /\ UNCHANGED <<build, done, cur_id, events, capacity, time_events, free_ids, pc,
                   te, ev, notified, stop_pc>>
    /\ UNCHANGED hist_vars

\* ------------------------------------------------------------------ start
\* The static initialisers and start(expected): events.resize(expected), and
\* the worker thread is about to take the mutex.
start(expected) ==
    /\ now = 0
    /\ done = FALSE
    /\ cur_id = 0
    /\ events = Defaults(expected)
    /\ capacity = expected
    /\ time_events = EmptyBag
    /\ free_ids = <<>>
    /\ pc = "loop"
    /\ te = NoTe
    /\ ev = NoEv
    /\ notified = FALSE
    /\ stop_pc = "none"

Init ==
    /\ build \in Builds
    /\ \E expected \in 0..MaxExpected : start(expected)
    /\ nadds = 0
    /\ reg = <<>>
    /\ calls = <<>>
    /\ removed = <<>>
    /\ running = 0
    /\ issued = {}
    /\ ret = NoRet

Next ==
    \/ \E when \in 0..MaxWhen, period \in 0..MaxPeriod : add(when, period)
    \/ \E id \in 0..MaxRemoveId : remove(id)
    \/ stop
    \/ join
    \/ run_exit
    \/ run_wait
    \/ run_wait_until
    \/ run_pop_invalid
    \/ run_pop_valid
    \/ run_invoke
    \/ run_return
    \/ Tick

Spec == Init /\ [][Next]_vars

\* ------------------------------------------------------------------ fairness
\* The worker is blocked in cond.wait or cond.wait_until: cond was not
\* notified and the instant it waits for has not come.
Blocked ==
    /\ pc \in {"wait", "wait_until"}
    /\ ~notified
    /\ pc = "wait_until" => now < te.next

\* An instant as read one clock unit later.  The program uses instants only
\* to compare them with now() and to add a period to them, so a clock that
\* goes on beyond MaxTime is the same program with every instant one unit
\* nearer; instants that have come are told apart no further than 0.
Earlier(t) == Max(t - 1, 0)

\* time_events with every entry's instant one unit nearer
EarlierBag(q) ==
    LET S == {Time_event(Earlier(e.next), e.ref) : e \in BagToSet(q)}
        Copies(f) == IF f.next = 0
                     THEN CopiesIn(Time_event(0, f.ref), q)
                          + CopiesIn(Time_event(1, f.ref), q)
                     ELSE CopiesIn(Time_event(f.next + 1, f.ref), q)
    IN [f \in S |-> Copies(f)]

\* The steady clock advances beyond MaxTime while the worker is blocked.
Tick_on ==
    /\ now = MaxTime
    /\ Blocked
    /\ time_events' = EarlierBag(time_events)
    /\ te' = [te EXCEPT !.next = Earlier(@)]
    /\ events' = [i \in 1..Len(events) |-> [events[i] EXCEPT !.start = Earlier(@)]]
    /\ reg' = [h \in 1..nadds |-> [reg[h] EXCEPT !.when = Earlier(@)]]
    /\ ret' = NoRet
    /\ UNCHANGED <<build, now, done, cur_id, capacity, free_ids, pc, ev, notified,
                   stop_pc, nadds, calls, removed, running, issued>>

\* One iteration of the loop of run(), from its head.
run_iterate == run_exit \/ run_wait \/ run_wait_until \/ run_pop_invalid \/ run_pop_valid

\* The iterations the worker is sure to make: it holds the mutex, or it waits
\* and cond was notified, or it waits until an instant that has come.  A
\* spurious wake-up may never come.
run_due ==
    /\ pc = "loop" \/ notified \/ (pc = "wait_until" /\ now >= te.next)
    /\ run_iterate

\* A service that is never stopped and from which no timer is removed.
NextRunning ==
    \/ \E when \in 0..MaxWhen, period \in 0..MaxPeriod : add(when, period)
    \/ run_wait
    \/ run_wait_until
    \/ run_pop_invalid
    \/ run_pop_valid
    \/ run_invoke
    \/ run_return
    \/ Tick
    \/ Tick_on

\* The clock advances, handlers begin and return, the worker is scheduled.
FairSpec ==
    /\ Init
    /\ [][NextRunning]_vars
    /\ WF_vars(Tick)
    /\ WF_vars(Tick_on)
    /\ WF_vars(run_due)
    /\ WF_vars(run_invoke)
    /\ WF_vars(run_return)

\* ------------------------------------------------------------------ claims
\* The add() calls made so far; call h registered handler h.
Toks == 1..nadds

OneShot(h) == h \in Toks /\ reg[h].period = 0
Periodic(h) == h \in Toks /\ reg[h].period > 0
Called(h) == h \in Toks /\ calls[h] > 0

\* The worker begins an invocation / comes back from one in this step.
Invokes == pc = "call" /\ pc' = "handler"
Returns == pc = "handler" /\ pc' = "loop"

\* C1: the handler of a one-shot timer is invoked at most once per add() and
\* never while the clock is earlier than the instant add() was given.
C1_OneShotAtMostOnceNotEarly ==
    \A h \in Toks :
        OneShot(h) => /\ calls[h] <= 1
                      /\ (running = h => now >= reg[h].when)

\* C2: on a service that is never stopped and from which nothing is removed,
\* every one-shot timer eventually has its handler invoked, whatever other
\* timers are registered (a worker that died calling an empty function is not
\* held against the claim here).
C2_OneShotEventuallyInvoked ==
    \A h \in 1..MaxAdds : OneShot(h) ~> (Called(h) \/ pc = "crashed")

\* C3: when the worker pops an entry for firing, no entry left in the
\* expiration queue has a strictly earlier instant.
C3_PopsEarliestEntry ==
    [][pc # "call" /\ pc' = "call"
         => \A e \in BagToSet(time_events') : te'.next <= e.next]_vars

\* C4: the k-th invocation of a periodic timer that was not removed is the one
\* scheduled for S + (k-1)*P and begins at or after that instant, and when the
\* handler returns the worker pushes exactly one entry, for the previous
\* scheduled instant plus P.
C4_PeriodicSchedule ==
    [][/\ (Invokes /\ Periodic(running') /\ removed[running'] = "no"
             => /\ te.next = reg[running'].when + calls[running'] * reg[running'].period
                /\ now >= te.next)
       /\ (Returns /\ Periodic(running) /\ removed[running] = "no" /\ ~done
             => time_events' = Push(time_events,
                                    Time_event(te.next + reg[running].period,
                                               reg[running].id)))]_vars

\* C5: once the handler of a periodic timer has removed its own id during its
\* invocation, the handler is not invoked again, and when it returns the worker
\* pushes no entry and returns the id to the free pool.
C5_SelfRemoveStopsPeriodic ==
    [][\A h \in Toks :
          Periodic(h) /\ removed[h] = "self"
            => /\ calls'[h] = calls[h]
               /\ (Returns /\ running = h
                     => /\ time_events' = time_events
                        /\ free_ids' = Append(free_ids, reg[h].id))]_vars

\* C6: a timer removed while the clock was before its instant and before any
\* invocation never has its handler invoked.
C6_RemovedBeforeInstantNeverInvoked ==
    \A h \in Toks : removed[h] = "early" => calls[h] = 0

\* C7: after remove(id) has returned true for a timer, no invocation of that
\* timer's handler begins.
C7_NoInvocationAfterRemove ==
    [][\A h \in Toks : removed[h] # "no" => calls'[h] = calls[h]]_vars

\* C8: remove(id) with an id that add() never returned returns false, touches
\* no slot of the store and does not abort.
C8_RemoveUnknownIdReturnsFalse ==
    ret.op = "remove" /\ ~ret.known => ~ret.result /\ ~ret.oob

\* C9 as stated: remove(id) on an id whose timer has retired returns false and
\* never throws or aborts.
C9_RemoveRetiredReturnsFalse ==
    ret.op = "remove" /\ ret.retired => ~ret.result /\ ~ret.oob

\* C9 amended: remove(id) on an id whose timer has retired returns what the
\* range test gives, whatever the validity of the slot: true while the service
\* has not been stopped, and then without throwing or aborting.
C9_RemoveRetiredReturnsTrue ==
    ret.op = "remove" /\ ret.retired
      => /\ ret.result = ~remove_out_of_range(ret.id)
         /\ (~done => ret.result /\ ~ret.oob)

\* A remove(id) on a retired id has just returned true on a running service.
C9_Witness ==
    ret.op = "remove" /\ ret.retired /\ ~done /\ ret.result /\ ~ret.oob

\* The worker has nothing left to do: the queue is empty and it idles, or it
\* has died.
Settled ==
    \/ time_events = EmptyBag /\ pc \in {"loop", "wait"}
    \/ pc = "crashed"

\* C10: two one-shot timers added with the same instant, neither removed, on a
\* service that is not stopped: each handler is invoked at most once, and once
\* the worker has nothing left to do each has been invoked exactly once.
C10_EqualInstantsBothFireOnce ==
    \A g \in Toks, h \in Toks :
        /\ g # h
        /\ OneShot(g) /\ OneShot(h)
        /\ reg[g].when = reg[h].when
        /\ removed[g] = "no" /\ removed[h] = "no"
        /\ ~done
        => /\ calls[g] <= 1 /\ calls[h] <= 1
           /\ (Settled => calls[g] = 1 /\ calls[h] = 1)

\* add() returns in this step; the id it returns.
Adds == nadds' # nadds
added_id == reg'[nadds'].id

\* C11: add() never returns an id whose slot holds a valid event or that an
\* entry of the expiration queue refers to, and the valid events of the store
\* have pairwise distinct ids.
C11_AddReturnsUnusedId ==
    [][/\ Adds => /\ added_id < Len(events) => ~At(added_id).valid
                  /\ \A e \in BagToSet(time_events) : e.ref # added_id
       /\ \A i \in 1..Len(events'), j \in 1..Len(events') :
            i # j /\ events'[i].valid /\ events'[j].valid
              => events'[i].id # events'[j].id]_vars

\* What add() does with the free pool: with a non-empty pool it returns the
\* id freed last and takes it off the pool, otherwise it leaves the pool alone
\* and returns an id that no add() has returned before.
PoolElseFresh ==
    IF free_ids # <<>>
    THEN /\ added_id = free_ids[Len(free_ids)]
         /\ free_ids' = SubSeq(free_ids, 1, Len(free_ids) - 1)
    ELSE /\ added_id \notin issued
         /\ free_ids' = free_ids

\* C12: every add() takes the most recently freed id from the free pool when
\* the pool is not empty, and otherwise returns a fresh id.
C12_AddTakesPoolElseFresh == [][Adds => PoolElseFresh]_vars

\* The ids the model can issue.
Ids == 0..(MaxAdds + MaxExpected)

InPool(id) == \E i \in 1..Len(free_ids) : free_ids[i] = id

\* The number of entries that refer to id: those of the expiration queue
\* (counted up to 2) and the one the worker popped and is firing.
Queued(id) == {e \in BagToSet(time_events) : e.ref = id}
Entries(id) ==
    IF Queued(id) = {} THEN 0
    ELSE IF Cardinality(Queued(id)) > 1 THEN 2
    ELSE CopiesIn(CHOOSE e \in Queued(id) : TRUE, time_events)
Held(id) == IF EvBound /\ te.ref = id THEN 1 ELSE 0

\* C13: no entry refers to an id that is in the free pool, and at most one
\* entry refers to any id, so the entries of an id that add() hands out again
\* are those pushed for the new registration.
C13_NoEntryForPooledId ==
    \A id \in Ids :
        /\ InPool(id) => Entries(id) + Held(id) = 0
        /\ Entries(id) + Held(id) <= 1

\* C14: once stop() has set the stop flag, no handler invocation begins.
C14_NoInvocationAfterStop ==
    [][done => calls' = calls /\ ~Invokes]_vars

\* ------------------------------------------------------------------ stopping
\* A service that is stopped at some time and from which no timer is removed.
NextStopping ==
    \/ \E when \in 0..MaxWhen, period \in 0..MaxPeriod : add(when, period)
    \/ stop
    \/ join
    \/ run_exit
    \/ run_wait
    \/ run_wait_until
    \/ run_pop_invalid
    \/ run_pop_valid
    \/ run_invoke
    \/ run_return
    \/ Tick

\* Handlers begin and return, the worker is scheduled, and worker.join()
\* returns once the worker thread has ended.
FairStopSpec ==
    /\ Init
    /\ [][NextStopping]_vars
    /\ WF_vars(run_due)
    /\ WF_vars(run_invoke)
    /\ WF_vars(run_return)
    /\ WF_vars(join)

\* C15: every stop() called from outside a handler eventually returns, and it
\* returns only after the worker's loop has exited.
C15_StopReturns ==
    /\ (stop_pc = "join") ~> (stop_pc = "returned")
    /\ [](stop_pc = "returned" => pc = "exited")

\* C16: when stop() has returned, the event store, the expiration queue and
\* the free pool are empty.
C16_EmptyAfterStop ==
    stop_pc = "returned"
      => events = <<>> /\ time_events = EmptyBag /\ free_ids = <<>>

\* C17: the worker does not wait while an entry whose instant has come is
\* queued: when it is blocked in cond.wait or cond.wait_until, every queued
\* entry has an instant later than the clock.
C17_NoWaitWithDueEntry ==
    Blocked => \A e \in BagToSet(time_events) : now < e.next

\* C18: while a handler runs the worker does not hold the mutex: an add()
\* and a remove() of any id, the running timer's own included, can be made
\* and complete while the handler has not returned.
C18_CallsCompleteDuringHandler ==
    pc = "handler"
      => /\ LockFree
         /\ nadds < MaxAdds
              => \A when \in 0..MaxWhen, period \in 0..MaxPeriod :
                   ENABLED (add(when, period) /\ pc' = "handler")
         /\ \A id \in 0..MaxRemoveId : ENABLED (remove(id) /\ pc' = "handler")

\* The handler of a timer runs and a remove() of its own id has just returned.
C18_Witness ==
    /\ pc = "handler"
    /\ ret.op = "remove" /\ ret.id = te.ref /\ ret.result

\* ------------------------------------------------------------------ capacity hint
MaxHint == 1        \* start() is given a capacity hint in 0..MaxHint

\* The service after start(expected), for a hint that may be positive.
InitHint ==
    /\ build \in Builds
    /\ \E expected \in 0..MaxHint : start(expected)
    /\ nadds = 0
    /\ reg = <<>>
    /\ calls = <<>>
    /\ removed = <<>>
    /\ running = 0
    /\ issued = {}
    /\ ret = NoRet

\* A service that is not stopped, with the clock at the instant of start().
NextHint ==
    \/ \E when \in 0..MaxWhen, period \in 0..MaxPeriod : add(when, period)
    \/ \E id \in 0..MaxRemoveId : remove(id)
    \/ run_wait
    \/ run_wait_until
    \/ run_pop_invalid
    \/ run_pop_valid
    \/ run_invoke
    \/ run_return

HintSpec == InitHint /\ [][NextHint]_vars

\* C19: the capacity hint has no effect on what the calls return.  With a
\* hint of 0 the first add() returns id 0, and a remove() of an id from 1 on
\* made before any add() returns false: the same holds for every hint.
C19_HintHasNoEffect ==
    /\ nadds >= 1 => reg[1].id = 0
    /\ ret.op = "remove" /\ nadds = 0 /\ ret.id >= 1 => ~ret.result

\* ------------------------------------------------------------------ instances
\* The source has one service per process (src/cpptime.cpp:52-60, 116-122):
\* two components t1 and t2 of a program use the same store, queue and pool.
\* t1 makes the first add(); the later calls, stop() among them, are t2's.
StopCalled == ~done /\ done'
Scheduled(h) == \E i \in 1..Len(events) : events[i].valid /\ events[i].handler = h

\* C20: two timer services are independent: a stop() made by the second one
\* leaves the timer that the first one has scheduled in the first one's store.
C20_StopLeavesOtherInstance ==
    [][StopCalled => (Scheduled(1) => Scheduled(1)')]_vars

\* ------------------------------------------------------------------ handler failure
\* The handler throws.  run() calls ev.handler(te.ref) outside any try block
\* and is the entry function of the worker thread, so the exception leaves
\* run() and std::terminate ends the process.
run_throw ==
    /\ pc = "handler"
    /\ pc' = "crashed"
    /\ ret' = [NoRet EXCEPT !.op = "throw", !.id = te.ref]
    /\ UNCHANGED <<te, ev, notified, stop_pc>>
    /\ UNCHANGED store_vars
    /\ UNCHANGED hist_vars

\* A service that is not stopped, from which nothing is removed, and whose
\* handlers may throw.
NextThrowing ==
    \/ \E when \in 0..MaxWhen, period \in 0..MaxPeriod : add(when, period)
    \/ run_wait
    \/ run_wait_until
    \/ run_pop_invalid
    \/ run_pop_valid
    \/ run_invoke
    \/ run_return
    \/ run_throw
    \/ Tick

ThrowSpec == Init /\ [][NextThrowing]_vars

\* C21: when a handler ends, by returning or by throwing, the worker is back
\* at the head of its loop with the mutex, and the id of the timer it fired
\* has an entry in the expiration queue (re-armed) or is in the free pool.
C21_WorkerSurvivesHandlerFailure ==
    [][pc = "handler" /\ pc' # "handler"
         => /\ pc' = "loop"
            /\ \/ \E e \in BagToSet(time_events') : e.ref = te.ref
               \/ \E k \in 1..Len(free_ids') : free_ids'[k] = te.ref]_vars

\* C22: add() writes only the slot of the id it returns: every other slot of
\* the store holds after add() the record it held before, at the same index.
C22_AddWritesOnlyItsSlot ==
    [][Adds => \A i \in 1..Len(events) :
                 i # added_id + 1 => i <= Len(events') /\ events'[i] = events[i]]_vars

\* A remove() call is made in this step; its argument.
Removes == ret'.op = "remove"
removed_id == ret'.id

\* remove(id) went through the range test and wrote the flag of slot id only.
OnlyFlagOf(id) ==
    /\ Len(events') = Len(events)
    /\ \A i \in 1..Len(events) :
         events'[i] = IF i = id + 1 THEN [events[i] EXCEPT !.valid = FALSE] ELSE events[i]

\* C23: remove(id) changes nothing but the validity flag of slot id (the queue,
\* the pool, the other records and the worker are as before), and add() does
\* not return the id of a timer removed before its instant while the clock is
\* still earlier than that instant.
C23_RemoveOnlyClearsFlag ==
    [][/\ Removes => /\ OnlyFlagOf(removed_id)
                     /\ time_events' = time_events
                     /\ free_ids' = free_ids
                     /\ pc' = pc
       /\ Adds => \A h \in Toks :
                    reg[h].id = added_id /\ removed[h] = "early" => now >= reg[h].when]_vars

\* C24: no add() notification is lost and the worker waits for the soonest
\* instant: a worker in cond.wait that was not notified has an empty queue, and
\* a worker in cond.wait_until that was not notified waits until an instant no
\* later than that of any entry in the queue, a newly added one included.
C24_AddWakesWorker ==
    /\ pc = "wait" /\ ~notified => time_events = EmptyBag
    /\ pc = "wait_until" /\ ~notified => \A e \in BagToSet(time_events) : te.next <= e.next

\* The worker has popped the entry of `id` and is about to call, or is running,
\* its handler.
Firing(id) == pc \in {"call", "handler"} /\ te.ref = id

\* C25: until stop() is called, the free pool holds no id twice, and every id
\* in it denotes a record that is not valid and is not being fired.
C25_PoolHoldsRetiredIdsOnce ==
    ~done =>
      /\ \A k \in 1..Len(free_ids), l \in 1..Len(free_ids) :
           k # l => free_ids[k] # free_ids[l]
      /\ \A k \in 1..Len(free_ids) :
           /\ free_ids[k] < Len(events) => ~At(free_ids[k]).valid
           /\ ~Firing(free_ids[k])

\* ------------------------------------------------------------------ no id is leaked
\* A service that is never stopped: timers are added and removed, the clock
\* goes on.
MaxAddsRemoving == 2     \* number of add() calls in a behaviour of FairRemoveSpec

NextRemoving ==
    \/ /\ nadds < MaxAddsRemoving
       /\ \E when \in 0..MaxWhen, period \in 0..MaxPeriod : add(when, period)
    \/ \E id \in 0..MaxRemoveId : remove(id)
    \/ run_wait
    \/ run_wait_until
    \/ run_pop_invalid
    \/ run_pop_valid
    \/ run_invoke
    \/ run_return
    \/ Tick
    \/ Tick_on

\* The clock advances, handlers begin and return, the worker is scheduled.
FairRemoveSpec ==
    /\ Init
    /\ [][NextRemoving]_vars
    /\ WF_vars(Tick)
    /\ WF_vars(Tick_on)
    /\ WF_vars(run_due)
    /\ WF_vars(run_invoke)
    /\ WF_vars(run_return)

\* add() has returned `id` and the record in slot id is not valid.
Invalidated(id) == id \in issued /\ id < Len(events) /\ ~At(id).valid

\* C26: on a service that is not stopped, every id whose record has been
\* invalidated is eventually in the free pool (a worker that died is not held
\* against the claim here).
C26_InvalidatedIdEventuallyPooled ==
    \A id \in Ids : Invalidated(id) ~> (InPool(id) \/ pc = "crashed")

\* C27: when the handler has returned and the worker reads ev.valid and
\* ev.period, the reference ev designates the record stored in slot te.ref: it
\* was left dangling neither by an add() that reallocated the store nor by a
\* stop() that cleared it.
C27_WorkerReadsStoredRecord ==
    [][Returns => ~ev.dangling /\ te.ref < Len(events)]_vars

====
